---- MODULE Spec2Model ----
(***************************************************************************)
(* Model of examples/main-thread-dispatcher.cpp: an Application that owns  *)
(* a Glib::MainLoop and NumThreads ThreadProgress objects.  Each           *)
(* ThreadProgress runs thread_function on a std::thread of its own, which  *)
(* emits the Glib::Dispatcher signal_increment_ ITERATIONS times; the      *)
(* main loop thread runs progress_increment once per emission and, when    *)
(* the counter reaches ITERATIONS, on_progress_finished, which joins the   *)
(* thread and quits the loop when no ThreadProgress is unfinished.         *)
(*                                                                         *)
(* Thread 0 is the main (loop) thread, thread w in Workers is the          *)
(* std::thread of ThreadProgress w.  One action is one step of one thread  *)
(* between two points where another thread can observe it: a callback of   *)
(* the main loop up to the point where it creates a thread, blocks or      *)
(* returns, one                                                            *)
(* sleep-and-emit of a worker, one increment-and-test of a worker's loop,  *)
(* the return of a worker's thread function.                               *)
(***************************************************************************)
EXTENDS Integers, FiniteSets, Sequences, TLC

\* progress_threads_(4): the number of ThreadProgress objects
NumThreads == 4

\* enum { ITERATIONS = 10 } in the source.  The model is checked with a
\* smaller number of iterations per thread; every formula is stated in
\* terms of ITERATIONS.
ITERATIONS == 2

\* cap on the number of times the launch timer may be dispatched
MaxFires == 2

Workers == 1..NumThreads

MainThread == 0

VARIABLES
    proc,            \* the process: "running", "exited0", "aborted", "ub"
    main_pc,         \* main thread: "ctor", "catch", "thrown", "main", "run",
                     \*              "launch", "join", "dtor", "done"
    main_loop_,      \* Glib::MainLoop: "idle", "running", "stopped"
    timer,           \* the connect_once timeout source: "none", "armed", "fired"
    joining,         \* ThreadProgress whose join() the main thread is inside, or 0
    thread_,         \* ThreadProgress::thread_ : "null" or "handle"
    progress_,       \* ThreadProgress::progress_
    tpc,             \* worker thread: "none", "failed" (not created), "loop",
                     \*                "emitted", "left", "exited"
    i,               \* loop variable of thread_function
    signal_increment_, \* emissions of the Dispatcher not yet dispatched
    emitted,         \* history: emissions made by each worker thread
    delivered,       \* history: progress_increment calls per ThreadProgress
    launched,        \* history: launch() calls per ThreadProgress
    launch_fires,    \* history: launch_threads calls
    finished_calls,  \* history: on_progress_finished calls per ThreadProgress
    join_calls,      \* history: join() calls per ThreadProgress
    quit_calls,      \* history: main_loop_->quit() calls
    wr,              \* history: threads that have written each kind of field
    diag,            \* outcome of ~ThreadProgress: "none", "clean", "critical", "abort"
    objects          \* ThreadProgress objects: "none", "alive", "deleted", "deleted_twice"

vars == <<proc, main_pc, main_loop_, timer, joining, thread_, progress_, tpc, i,
          signal_increment_, emitted, delivered, launched, launch_fires,
          finished_calls, join_calls, quit_calls, wr, diag, objects>>

workerVars == <<tpc, i, signal_increment_, emitted>>
objVars == <<thread_, progress_>>
histVars == <<delivered, launched, launch_fires, finished_calls, join_calls, quit_calls>>

Fields == {"progress_", "thread_", "main_loop_"}

TypeOK ==
    /\ proc \in {"running", "exited0", "aborted", "ub"}
    /\ main_pc \in {"ctor", "catch", "thrown", "main", "run", "launch", "join", "dtor", "done"}
    /\ main_loop_ \in {"idle", "running", "stopped"}
    /\ timer \in {"none", "armed", "fired"}
    /\ joining \in 0..NumThreads
    /\ thread_ \in [Workers -> {"null", "handle"}]
    /\ progress_ \in [Workers -> Nat]
    /\ tpc \in [Workers -> {"none", "failed", "loop", "emitted", "left", "exited"}]
    /\ i \in [Workers -> Nat]
    /\ signal_increment_ \in [Workers -> Nat]
    /\ wr \in [Fields -> SUBSET (0..NumThreads)]
    /\ diag \in [Workers -> {"none", "clean", "critical", "abort"}]
    /\ objects \in [Workers -> {"none", "alive", "deleted", "deleted_twice"}]

\* Application::Application and ThreadProgress::ThreadProgress, then main()
\* up to the call of application.run()
Init ==
    /\ proc = "running"
    /\ main_pc = "main"
    /\ main_loop_ = "idle"
    /\ timer = "none"
    /\ joining = 0
    /\ thread_ = [w \in Workers |-> "null"]
    /\ progress_ = [w \in Workers |-> 0]
    /\ tpc = [w \in Workers |-> "none"]
    /\ i = [w \in Workers |-> 0]
    /\ signal_increment_ = [w \in Workers |-> 0]
    /\ emitted = [w \in Workers |-> 0]
    /\ delivered = [w \in Workers |-> 0]
    /\ launched = [w \in Workers |-> 0]
    /\ launch_fires = 0
    /\ finished_calls = [w \in Workers |-> 0]
    /\ join_calls = [w \in Workers |-> 0]
    /\ quit_calls = 0
    /\ wr = [f \in Fields |-> {}]
    /\ diag = [w \in Workers |-> "none"]
    /\ objects = [w \in Workers |-> "alive"]

\* record that thread t wrote a field of kind f
Wrote(f, t) == [wr EXCEPT ![f] = @ \cup {t}]

----------------------------------------------------------------------------
(* Application::run *)

\* connect_once(launch_threads, 3000) then main_loop_->run()
run ==
    /\ proc = "running"
    /\ main_pc = "main"
    /\ main_pc' = "run"
    /\ timer' = "armed"
    /\ main_loop_' = "running"
    /\ wr' = Wrote("main_loop_", MainThread)
    /\ UNCHANGED <<proc, joining, objVars, workerVars, histVars, diag, objects>>

----------------------------------------------------------------------------
(* Application::launch_threads, dispatched by the timeout source *)

\* state of a one-shot (connect_once) source after its handler has run
timer_periodic == "armed"
timer_after_fire == "fired"

\* the test of the for loop of thread_function
loop_test_le(k) == k <= ITERATIONS
loop_test(k) == k < ITERATIONS

\* The timeout source dispatches launch_threads on the main loop thread:
\* the handler starts its for_each over progress_threads_.
launch_threads ==
    /\ proc = "running"
    /\ main_pc = "run"
    /\ main_loop_ = "running"
    /\ timer = "armed"
    /\ launch_fires < MaxFires
    /\ timer' = timer_after_fire
    /\ launch_fires' = launch_fires + 1
    /\ main_pc' = "launch"
    /\ UNCHANGED <<proc, main_loop_, joining, objVars, workerVars, delivered, launched,
                   finished_calls, join_calls, quit_calls, wr, diag, objects>>

\* the ThreadProgress the for_each of launch_threads calls launch() on next
NextToLaunch == CHOOSE w \in Workers :
                    /\ launched[w] < launch_fires
                    /\ \A v \in Workers : launched[v] < launch_fires => w <= v

\* where the main thread continues after launch() on ThreadProgress w: the
\* for_each goes on to the next object and launch_threads returns to the
\* loop after the last one
after_launch_return(w) == "run"
after_launch(w) == IF w = NumThreads THEN "run" ELSE "launch"

\* ThreadProgress::launch inside launch_threads: thread_ is set to a new
\* std::thread, which enters thread_function with i = 0 and runs
\* concurrently with the rest of launch_threads
launch(w) ==
    /\ proc = "running"
    /\ main_pc = "launch"
    /\ \E v \in Workers : launched[v] < launch_fires
    /\ w = NextToLaunch
    /\ thread_' = [thread_ EXCEPT ![w] = "handle"]
    /\ launched' = [launched EXCEPT ![w] = @ + 1]
    /\ i' = [i EXCEPT ![w] = 0]
    /\ tpc' = [tpc EXCEPT ![w] = IF loop_test(0) THEN "loop" ELSE "left"]
    /\ wr' = Wrote("thread_", MainThread)
    /\ main_pc' = after_launch(w)
    /\ UNCHANGED <<proc, main_loop_, timer, joining, progress_, signal_increment_, emitted,
                   delivered, launch_fires, finished_calls, join_calls, quit_calls, diag,
                   objects>>

\* the process after std::system_error has left launch(): launch(),
\* launch_threads and the timeout callback have no handler for it, which
\* is fatal
launch_failure_ignored == "running"
launch_failure_proc == "aborted"

\* ThreadProgress::launch when the system cannot create the thread: the
\* std::thread constructor throws, thread_ keeps its value and no thread
\* of ThreadProgress w exists
launch_throws(w) ==
    /\ proc = "running"
    /\ main_pc = "launch"
    /\ \E v \in Workers : launched[v] < launch_fires
    /\ w = NextToLaunch
    /\ launched' = [launched EXCEPT ![w] = @ + 1]
    /\ tpc' = [tpc EXCEPT ![w] = "failed"]
    /\ proc' = launch_failure_proc
    /\ UNCHANGED <<main_pc, main_loop_, timer, joining, objVars, i, signal_increment_, emitted,
                   delivered, launch_fires, finished_calls, join_calls, quit_calls, wr, diag,
                   objects>>

----------------------------------------------------------------------------
(* ThreadProgress::thread_function, run by worker thread w *)

\* a worker that updated the counter itself instead of only signalling
thread_function_emit_direct(w) ==
    /\ proc = "running"
    /\ tpc[w] = "loop"
    /\ tpc' = [tpc EXCEPT ![w] = "emitted"]
    /\ signal_increment_' = [signal_increment_ EXCEPT ![w] = @ + 1]
    /\ emitted' = [emitted EXCEPT ![w] = @ + 1]
    /\ progress_' = [progress_ EXCEPT ![w] = @ + 1]
    /\ wr' = Wrote("progress_", w)
    /\ UNCHANGED <<proc, main_pc, main_loop_, timer, joining, thread_, i, histVars, diag, objects>>

\* a worker that waits until its previous notification has been processed
thread_function_emit_handshake(w) ==
    /\ proc = "running"
    /\ tpc[w] = "loop"
    /\ signal_increment_[w] = 0
    /\ tpc' = [tpc EXCEPT ![w] = "emitted"]
    /\ signal_increment_' = [signal_increment_ EXCEPT ![w] = @ + 1]
    /\ emitted' = [emitted EXCEPT ![w] = @ + 1]
    /\ UNCHANGED <<proc, main_pc, main_loop_, timer, joining, objVars, i, histVars, wr, diag,
                   objects>>

\* the body of the for loop: Glib::usleep(...), the output line, then
\* signal_increment_(), which queues one notification for the main loop
thread_function_emit(w) ==
    /\ proc = "running"
    /\ tpc[w] = "loop"
    /\ tpc' = [tpc EXCEPT ![w] = "emitted"]
    /\ signal_increment_' = [signal_increment_ EXCEPT ![w] = @ + 1]
    /\ emitted' = [emitted EXCEPT ![w] = @ + 1]
    /\ UNCHANGED <<proc, main_pc, main_loop_, timer, joining, objVars, i, histVars, wr, diag, objects>>

\* ++i and the loop test; when the test fails the thread leaves the loop
thread_function_next(w) ==
    /\ proc = "running"
    /\ tpc[w] = "emitted"
    /\ i' = [i EXCEPT ![w] = @ + 1]
    /\ tpc' = [tpc EXCEPT ![w] = IF loop_test(i[w] + 1) THEN "loop" ELSE "left"]
    /\ UNCHANGED <<proc, main_pc, main_loop_, timer, joining, objVars, signal_increment_,
                   emitted, histVars, wr, diag, objects>>

\* thread_function returns and the std::thread terminates
thread_function_return(w) ==
    /\ proc = "running"
    /\ tpc[w] = "left"
    /\ tpc' = [tpc EXCEPT ![w] = "exited"]
    /\ UNCHANGED <<proc, main_pc, main_loop_, timer, joining, objVars, i, signal_increment_,
                   emitted, histVars, wr, diag, objects>>

----------------------------------------------------------------------------
(* ThreadProgress::progress_increment and Application::on_progress_finished *)

\* the test that raises signal_finished_ in progress_increment
finished_reached_early(p) == p >= ITERATIONS - 1
finished_reached(p) == p >= ITERATIONS

\* ThreadProgress::unfinished
unfinished_le(w) == progress_[w] <= ITERATIONS
unfinished_early(w) == progress_[w] < ITERATIONS - 1
unfinished(w) == progress_[w] < ITERATIONS

\* value of thread_ when join() returns
join_keeps_handle == "handle"
join_handle == "null"

\* signal_increment_.connect(progress_increment): the handler runs for
\* emissions of the Dispatcher of ThreadProgress w, one call per emission
dispatch_ready_any(w) == tpc[w] # "none"
dispatch_ready(w) == signal_increment_[w] > 0

\* The Dispatcher runs progress_increment on the main loop thread for one
\* queued emission of ThreadProgress w.  When the counter reaches ITERATIONS,
\* signal_finished_ calls on_progress_finished(w) synchronously, which calls
\* join(): thread_->join() on a null thread_ is undefined behaviour, on a
\* handle the main thread blocks until the worker thread has terminated.
progress_increment(w) ==
    /\ proc = "running"
    /\ main_pc = "run"
    /\ main_loop_ = "running"
    /\ dispatch_ready(w)
    /\ signal_increment_' = [signal_increment_ EXCEPT ![w] = @ - 1]
    /\ progress_' = [progress_ EXCEPT ![w] = @ + 1]
    /\ delivered' = [delivered EXCEPT ![w] = @ + 1]
    /\ wr' = Wrote("progress_", MainThread)
    /\ IF finished_reached(progress_[w] + 1)
         THEN /\ finished_calls' = [finished_calls EXCEPT ![w] = @ + 1]
              /\ join_calls' = [join_calls EXCEPT ![w] = @ + 1]
              /\ IF thread_[w] = "null"
                   THEN /\ proc' = "ub"
                        /\ UNCHANGED <<main_pc, joining>>
                   ELSE /\ main_pc' = "join"
                        /\ joining' = w
                        /\ UNCHANGED proc
         ELSE UNCHANGED <<finished_calls, join_calls, proc, main_pc, joining>>
    /\ UNCHANGED <<main_loop_, timer, thread_, tpc, i, emitted, launched, launch_fires,
                   quit_calls, diag, objects>>

\* thread_->join() returns once the worker thread has terminated; join()
\* deletes the std::thread and clears thread_, and on_progress_finished
\* quits the main loop if find_if finds no unfinished ThreadProgress
join_return ==
    /\ proc = "running"
    /\ main_pc = "join"
    /\ tpc[joining] = "exited"
    /\ thread_' = [thread_ EXCEPT ![joining] = join_handle]
    /\ main_pc' = "run"
    /\ joining' = 0
    /\ IF \A v \in Workers : ~unfinished(v)
         THEN /\ main_loop_' = "stopped"
              /\ quit_calls' = quit_calls + 1
              /\ wr' = [wr EXCEPT !["thread_"] = @ \cup {MainThread},
                                  !["main_loop_"] = @ \cup {MainThread}]
         ELSE /\ wr' = Wrote("thread_", MainThread)
              /\ UNCHANGED <<main_loop_, quit_calls>>
    /\ UNCHANGED <<proc, timer, progress_, workerVars, delivered, launched, launch_fires,
                   finished_calls, join_calls, diag, objects>>

----------------------------------------------------------------------------
(* return of Application::run, Application::~Application, return from main *)

\* main_loop_->run() returns after quit()
run_returns ==
    /\ proc = "running"
    /\ main_pc = "run"
    /\ main_loop_ = "stopped"
    /\ main_pc' = "dtor"
    /\ UNCHANGED <<proc, main_loop_, timer, joining, objVars, workerVars, histVars, wr, diag, objects>>

\* DeletePtr: delete ptr.  Deleting a null pointer does nothing, deleting an
\* object that was deleted before is a double delete.
Deleted_noop(o) == o
Deleted(o) ==
    CASE o = "none" -> "none"
      [] o = "alive" -> "deleted"
      [] OTHER -> "deleted_twice"

\* ThreadProgress::~ThreadProgress: g_return_if_fail(thread_ == nullptr).
\* With thread_ null the destructor completes.  Otherwise GLib logs a
\* CRITICAL message and the destructor returns; the message is fatal only
\* when critical messages are made fatal (G_DEBUG=fatal-criticals).
ThreadProgress_dtor_unchecked(h) == {"clean"}
ThreadProgress_dtor(h) == IF h = "null" THEN {"clean"} ELSE {"critical", "abort"}

\* the objects destroyed by a for_each of DeletePtr with outcomes d: the
\* for_each stops at the first destructor that aborts the process
Destroyed(d) == {w \in Workers : \A v \in 1..(w - 1) : d[v] # "abort"}

\* for_each(progress_threads_, DeletePtr) in ~Application, then return 0.
\* A ThreadProgress freed under a live thread leaves that thread running on
\* freed memory: undefined behaviour.
Application_dtor ==
    /\ proc = "running"
    /\ main_pc = "dtor"
    /\ \E d \in [Workers -> {"clean", "critical", "abort"}] :
         /\ \A w \in Workers : d[w] \in ThreadProgress_dtor(thread_[w])
         /\ diag' = [w \in Workers |-> IF w \in Destroyed(d) THEN d[w] ELSE "none"]
         /\ proc' = IF \E w \in Workers : d[w] = "abort" THEN "aborted"
                    ELSE IF \E w \in Workers : d[w] = "critical" THEN "ub"
                    ELSE "exited0"
         /\ objects' = [w \in Workers |-> IF w \in Destroyed(d) THEN Deleted(objects[w])
                                            ELSE objects[w]]
    /\ main_pc' = "done"
    /\ UNCHANGED <<main_loop_, timer, joining, objVars, workerVars, histVars, wr>>

----------------------------------------------------------------------------
(* a caller that deletes a ThreadProgress before ~Application does *)

\* delete of ThreadProgress w at an arbitrary point of the run.  Unless the
\* process aborts, progress_threads_ keeps the dangling pointer and a launched
\* thread keeps running on the freed object: undefined behaviour.
delete_worker(w) ==
    /\ proc = "running"
    /\ main_pc \in {"main", "run", "launch", "join"}
    /\ diag[w] = "none"
    /\ \E o \in ThreadProgress_dtor(thread_[w]) :
         /\ diag' = [diag EXCEPT ![w] = o]
         /\ proc' = IF o = "abort" THEN "aborted" ELSE "ub"
    /\ objects' = [objects EXCEPT ![w] = Deleted(@)]
    /\ UNCHANGED <<main_pc, main_loop_, timer, joining, objVars, workerVars, histVars, wr>>

----------------------------------------------------------------------------
(* Application::Application, when the construction of a ThreadProgress or  *)
(* the connection of its signal_finished() can throw                       *)

\* main() at the definition of application: progress_threads_ holds
\* NumThreads null pointers and no ThreadProgress exists
InitCtor ==
    /\ proc = "running"
    /\ main_pc = "ctor"
    /\ main_loop_ = "idle"
    /\ timer = "none"
    /\ joining = 0
    /\ thread_ = [w \in Workers |-> "null"]
    /\ progress_ = [w \in Workers |-> 0]
    /\ tpc = [w \in Workers |-> "none"]
    /\ i = [w \in Workers |-> 0]
    /\ signal_increment_ = [w \in Workers |-> 0]
    /\ emitted = [w \in Workers |-> 0]
    /\ delivered = [w \in Workers |-> 0]
    /\ launched = [w \in Workers |-> 0]
    /\ launch_fires = 0
    /\ finished_calls = [w \in Workers |-> 0]
    /\ join_calls = [w \in Workers |-> 0]
    /\ quit_calls = 0
    /\ wr = [f \in Fields |-> {}]
    /\ diag = [w \in Workers |-> "none"]
    /\ objects = [w \in Workers |-> "none"]

\* the index of the constructor's for loop: the objects 1..k-1 exist
CtorIndex == 1 + Cardinality({w \in Workers : objects[w] # "none"})

\* one pass of the for loop: new ThreadProgress(i + 1), the assignment to
\* progress_threads_[i] and signal_finished().connect(...); after the last
\* pass the constructor returns to main()
ctor_worker(k) ==
    /\ proc = "running"
    /\ main_pc = "ctor"
    /\ k = CtorIndex
    /\ objects' = [objects EXCEPT ![k] = "alive"]
    /\ main_pc' = IF k = NumThreads THEN "main" ELSE "ctor"
    /\ UNCHANGED <<proc, main_loop_, timer, joining, objVars, workerVars, histVars, wr, diag>>

\* new ThreadProgress(i + 1) throws: the object does not exist and
\* progress_threads_[i] stays null; control passes to catch (...)
ctor_new_throws(k) ==
    /\ proc = "running"
    /\ main_pc = "ctor"
    /\ k = CtorIndex
    /\ main_pc' = "catch"
    /\ UNCHANGED <<proc, main_loop_, timer, joining, objVars, workerVars, histVars, wr, diag,
                   objects>>

\* signal_finished().connect(...) throws: the object exists and is in
\* progress_threads_[i]; control passes to catch (...)
ctor_connect_throws(k) ==
    /\ proc = "running"
    /\ main_pc = "ctor"
    /\ k = CtorIndex
    /\ objects' = [objects EXCEPT ![k] = "alive"]
    /\ main_pc' = "catch"
    /\ UNCHANGED <<proc, main_loop_, timer, joining, objVars, workerVars, histVars, wr, diag>>

\* catch (...): for_each(progress_threads_, DeletePtr) over all NumThreads
\* pointers, then throw; re-raises the exception to main()
ctor_catch ==
    /\ proc = "running"
    /\ main_pc = "catch"
    /\ \E d \in [Workers -> {"clean", "critical", "abort"}] :
         /\ \A w \in Workers : d[w] \in ThreadProgress_dtor(thread_[w])
         /\ diag' = [w \in Workers |-> IF objects[w] = "none" THEN diag[w] ELSE d[w]]
    /\ objects' = [w \in Workers |-> Deleted(objects[w])]
    /\ main_pc' = "thrown"
    /\ UNCHANGED <<proc, main_loop_, timer, joining, objVars, workerVars, histVars, wr>>

\* main() has no handler for the exception: std::terminate
main_terminate ==
    /\ proc = "running"
    /\ main_pc = "thrown"
    /\ proc' = "aborted"
    /\ UNCHANGED <<main_pc, main_loop_, timer, joining, objVars, workerVars, histVars, wr,
                   diag, objects>>

----------------------------------------------------------------------------
(* specifications *)

Next ==
    \/ run
    \/ launch_threads
    \/ \E w \in Workers : launch(w)
    \/ \E w \in Workers : thread_function_emit(w)
    \/ \E w \in Workers : thread_function_next(w)
    \/ \E w \in Workers : thread_function_return(w)
    \/ \E w \in Workers : progress_increment(w)
    \/ join_return
    \/ run_returns
    \/ Application_dtor

Spec == Init /\ [][Next]_vars

\* The worker threads are scheduled by the operating system and sleep for a
\* finite time; the main loop dispatches every source that is ready and
\* main() continues when run() returns.
Fairness ==
    /\ WF_vars(run)
    /\ WF_vars(launch_threads)
    /\ \A w \in Workers : WF_vars(launch(w))
    /\ \A w \in Workers : WF_vars(thread_function_emit(w) \/ thread_function_next(w)
                                   \/ thread_function_return(w))
    /\ \A w \in Workers : WF_vars(progress_increment(w))
    /\ WF_vars(join_return)
    /\ WF_vars(run_returns)
    /\ WF_vars(Application_dtor)

FairSpec == Spec /\ Fairness

NextCtor ==
    \/ \E k \in Workers : ctor_worker(k)
    \/ \E k \in Workers : ctor_new_throws(k)
    \/ \E k \in Workers : ctor_connect_throws(k)
    \/ ctor_catch
    \/ main_terminate
    \/ Next

SpecCtor == InitCtor /\ [][NextCtor]_vars

NextFail ==
    \/ Next
    \/ \E w \in Workers : launch_throws(w)

SpecFail == Init /\ [][NextFail]_vars

NextLifecycle ==
    \/ Next
    \/ \E w \in Workers : delete_worker(w)

SpecLifecycle == Init /\ [][NextLifecycle]_vars

----------------------------------------------------------------------------
(* properties *)

RECURSIVE SumUpTo(_, _)
SumUpTo(f, n) == IF n = 0 THEN 0 ELSE f[n] + SumUpTo(f, n - 1)

\* total over all ThreadProgress objects of a per-object counter
Total(f) == SumUpTo(f, NumThreads)

\* the thread of ThreadProgress w has been launched and joined again
Joined(w) == launched[w] > 0 /\ join_calls[w] > 0 /\ thread_[w] = "null" /\ joining # w

\* C1: on_progress_finished is invoked at most once for each ThreadProgress,
\* it has been invoked exactly when progress_ equals ITERATIONS (the counter
\* is neither below ITERATIONS at the call nor ever above it), and once the
\* loop is stopped it has been invoked exactly once for every ThreadProgress.
C1_FinishedOnceAtIterations ==
    \A w \in Workers :
        /\ finished_calls[w] <= 1
        /\ progress_[w] <= ITERATIONS
        /\ (finished_calls[w] = 1) <=> (progress_[w] = ITERATIONS)
        /\ main_loop_ = "stopped" => finished_calls[w] = 1

C1_Witness ==
    /\ main_loop_ = "stopped"
    /\ \A w \in Workers : finished_calls[w] = 1 /\ progress_[w] = ITERATIONS

\* C2: the main loop is stopped if and only if every ThreadProgress has
\* progress_ = ITERATIONS and has been joined; quit() has been called only
\* in such a state.
C2_StoppedIffAllFinishedAndJoined ==
    LET AllDone == \A w \in Workers : progress_[w] = ITERATIONS /\ Joined(w)
    IN  /\ (main_loop_ = "stopped") <=> AllDone
        /\ (quit_calls > 0) <=> (main_loop_ = "stopped")

C2_Witness ==
    /\ main_loop_ = "stopped"
    /\ quit_calls = 1
    /\ \A w \in Workers : Joined(w)

\* C3: under fair scheduling every run reaches the state in which the
\* launch timer has fired, every worker thread has terminated, exactly
\* NumThreads * ITERATIONS notifications have been delivered, the loop has
\* quit, run() has returned and the process has exited with code 0; in
\* particular the main thread does not stay inside join().
C3_Completed ==
    /\ proc = "exited0"
    /\ main_pc = "done"
    /\ main_loop_ = "stopped"
    /\ launch_fires = 1
    /\ \A w \in Workers : tpc[w] = "exited"
    /\ Total(delivered) = NumThreads * ITERATIONS
    /\ Total(emitted) = NumThreads * ITERATIONS

C3_EventuallyExitsZero == <>[]C3_Completed

C3_Witness == C3_Completed

\* C4: a worker thread emits signal_increment_ at most ITERATIONS times and
\* exactly ITERATIONS times before it leaves its loop; every emission is
\* dispatched at most once, progress_ counts the dispatches and never exceeds
\* ITERATIONS; when the loop is stopped each ThreadProgress has had exactly
\* ITERATIONS emissions and ITERATIONS calls of progress_increment.
C4_ExactlyIterationsNotifications ==
    \A w \in Workers :
        /\ emitted[w] <= ITERATIONS
        /\ progress_[w] <= ITERATIONS
        /\ progress_[w] = delivered[w]
        /\ delivered[w] + signal_increment_[w] = emitted[w]
        /\ tpc[w] \in {"left", "exited"} => emitted[w] = ITERATIONS
        /\ main_loop_ = "stopped" =>
              /\ emitted[w] = ITERATIONS
              /\ delivered[w] = ITERATIONS
              /\ tpc[w] = "exited"

C4_Witness ==
    /\ main_loop_ = "stopped"
    /\ \A w \in Workers : emitted[w] = ITERATIONS /\ delivered[w] = ITERATIONS

\* C5: join() is called at most once per ThreadProgress, only from its
\* finished callback and only on a launched thread; while join() executes
\* thread_ is the handle of a launched thread that has not been joined,
\* after it has returned thread_ is null, and once the loop is stopped
\* join() has been called exactly once for every ThreadProgress.
C5_JoinOnceAfterFinished ==
    /\ proc # "ub"
    /\ (main_pc = "join") <=> (joining \in Workers)
    /\ \A w \in Workers :
        /\ join_calls[w] <= 1
        /\ join_calls[w] = finished_calls[w]
        /\ join_calls[w] = 1 => launched[w] = 1 /\ progress_[w] = ITERATIONS
        /\ joining = w => join_calls[w] = 1 /\ thread_[w] = "handle" /\ tpc[w] # "none"
        /\ (join_calls[w] = 1 /\ joining # w) => thread_[w] = "null"
        /\ main_loop_ = "stopped" => join_calls[w] = 1

C5_Witness ==
    /\ main_pc = "join"
    /\ thread_[joining] = "handle"
    /\ \E w \in Workers : w # joining /\ Joined(w)

\* C6 as stated: whenever the main thread is inside join() on w, the thread
\* of w has emitted its last notification and has left its iteration loop.
C6_Original ==
    main_pc = "join" =>
        /\ emitted[joining] = ITERATIONS
        /\ tpc[joining] \in {"left", "exited"}

\* C6 (amended): whenever the main thread is inside join() on w, the thread
\* of w has emitted its last notification and will neither sleep nor notify
\* again: it has left its iteration loop, or it is between its last emission
\* and the increment and test that end the loop.
C6_JoinAfterLastEmission ==
    main_pc = "join" =>
        /\ emitted[joining] = ITERATIONS
        /\ signal_increment_[joining] = 0
        /\ tpc[joining] \in {"emitted", "left", "exited"}
        /\ tpc[joining] = "emitted" => ~loop_test(i[joining] + 1)

C6_Witness ==
    /\ main_pc = "join"
    /\ tpc[joining] = "emitted"
    /\ emitted[joining] = ITERATIONS

\* C7: progress_, thread_ and the state of the main loop are written by the
\* main thread only, and a step in which a worker thread emits changes none
\* of them and no other channel than the worker's own.
C7_MainThreadIsSoleWriter ==
    /\ [](\A f \in Fields : wr[f] \subseteq {MainThread})
    /\ [][\A w \in Workers :
            emitted'[w] # emitted[w] =>
                /\ UNCHANGED <<progress_, thread_, main_loop_, main_pc, delivered>>
                /\ \A v \in Workers \ {w} :
                      /\ signal_increment_'[v] = signal_increment_[v]
                      /\ emitted'[v] = emitted[v]]_vars

C7_Witness ==
    /\ wr = [f \in Fields |-> {MainThread}]
    /\ \E w \in Workers : emitted[w] > 0 /\ progress_[w] > 0

\* C8: no ThreadProgress is destroyed while its thread is unjoined: when
\* ~Application runs every thread_ is null (every thread launched has been
\* joined), every destructor completes without the lifecycle diagnostic and
\* the process exits normally.
C8_DestroyedOnlyWhenJoined ==
    /\ main_pc = "dtor" => \A w \in Workers : thread_[w] = "null" /\ Joined(w)
    /\ \A w \in Workers : diag[w] \in {"none", "clean"}
    /\ \A w \in Workers : diag[w] # "none" => thread_[w] = "null" /\ tpc[w] = "exited"
    /\ main_pc = "done" => proc = "exited0" /\ \A w \in Workers : diag[w] = "clean"

C8_Witness ==
    /\ main_pc = "done"
    /\ \A w \in Workers : diag[w] = "clean" /\ launched[w] = 1

C10_LaunchOnce ==
    /\ launch_fires <= 1
    /\ (launch_fires = 1) <=> (timer = "fired")
    /\ \A w \in Workers : launched[w] <= launch_fires
    /\ \A w \in Workers : tpc[w] # "none" <=> launched[w] = 1
    /\ main_pc # "launch" => \A w \in Workers : launched[w] = launch_fires
    /\ (\E w \in Workers : launched[w] = 1) => wr["thread_"] = {MainThread}
    /\ main_loop_ = "stopped" => launch_fires = 1

C10_Witness ==
    /\ launch_fires = 1
    /\ timer = "fired"
    /\ \A w \in Workers : launched[w] = 1 /\ delivered[w] > 0

\* C11: the notifications of one ThreadProgress are processed in the order
\* of their emission: the k-th progress_increment of w runs only after w has
\* emitted its k-th notification, so progress_ of w never exceeds the number
\* of notifications w has emitted.
C11_ProcessedAfterEmitted ==
    /\ [](\A w \in Workers :
            /\ progress_[w] <= emitted[w]
            /\ delivered[w] <= emitted[w]
            /\ signal_increment_[w] >= 0)
    /\ [][\A w \in Workers :
            delivered'[w] # delivered[w] =>
                /\ delivered'[w] = delivered[w] + 1
                /\ emitted[w] >= delivered'[w]
                /\ progress_'[w] = delivered'[w]]_vars

C11_Witness ==
    \E w \in Workers :
        /\ emitted[w] = ITERATIONS
        /\ progress_[w] >= 1
        /\ progress_[w] < emitted[w]

\* the coordinator's state: Idle (0) until the timer fires, Launching (1)
\* while launch_threads runs, Running (2) while the loop dispatches the
\* workers' notifications, Stopped (3) once quit() has been called
CoordinatorState ==
    IF main_loop_ = "stopped" THEN 3
    ELSE IF main_pc = "launch" THEN 1
    ELSE IF launch_fires > 0 THEN 2
    ELSE 0

\* C12: the coordinator passes through Idle, Launching, Running, Stopped in
\* a single pass: every step keeps the state or moves to the next one, so no
\* state is re-entered and nothing leaves Stopped.
C12_SinglePass ==
    [][CoordinatorState' = CoordinatorState \/ CoordinatorState' = CoordinatorState + 1]_vars

C12_Witness ==
    /\ CoordinatorState = 3
    /\ main_pc = "done"
    /\ launch_fires = 1
    /\ quit_calls = 1

\* C13: when the construction of the worker list fails part-way, every
\* ThreadProgress created so far has been destroyed, exactly once and
\* without the lifecycle diagnostic, when the failure is re-raised to
\* main(): no object remains allocated and no thread has been started.
C13_CleanedUpBeforeRethrow ==
    /\ \A w \in Workers : objects[w] # "deleted_twice"
    /\ main_pc = "catch" => \A w \in Workers : thread_[w] = "null" /\ tpc[w] = "none"
    /\ main_pc = "thrown" =>
          /\ main_loop_ = "idle"
          /\ launch_fires = 0
          /\ \A w \in Workers :
                /\ objects[w] \in {"none", "deleted"}
                /\ objects[w] = "deleted" => diag[w] = "clean"
                /\ objects[w] = "none" => diag[w] = "none"
                /\ thread_[w] = "null"
                /\ tpc[w] = "none"
                /\ launched[w] = 0

C13_Witness ==
    /\ main_pc = "thrown"
    /\ objects[1] = "deleted"
    /\ \E w \in Workers : objects[w] = "deleted" /\ w > 1
    /\ objects[NumThreads] = "none"

\* C14: when the creation of a thread fails in launch(), the failure is
\* fatal: the process is aborted inside launch_threads, launch() was called
\* once on that ThreadProgress and is not retried, the loop is never
\* stopped normally, and no step of the program follows the failure.
C14_LaunchFailureIsFatal ==
    /\ [](\A w \in Workers :
            tpc[w] = "failed" =>
                /\ proc = "aborted"
                /\ main_pc = "launch"
                /\ main_loop_ = "running"
                /\ quit_calls = 0
                /\ launch_fires = 1
                /\ launched[w] = 1
                /\ thread_[w] = "null")
    /\ [][(\E w \in Workers : tpc[w] = "failed") => UNCHANGED vars]_vars

C14_Witness ==
    /\ proc = "aborted"
    /\ \E w \in Workers : tpc[w] = "failed" /\ w > 1
    /\ \E v \in Workers : tpc[v] \in {"loop", "emitted", "left", "exited"} /\ emitted[v] > 0

\* C15 as stated: progress_ of a ThreadProgress is mutated only from the
\* worker's own thread, never from the main thread, and the worker is joined
\* only after completion.
C15_Original ==
    /\ MainThread \notin wr["progress_"]
    /\ \A w \in Workers : join_calls[w] > 0 => progress_[w] = ITERATIONS

\* C15 (amended): progress_ of a ThreadProgress is mutated only from the
\* main thread, in a progress_increment step of the running loop in which
\* the worker's own thread does not move, and the worker is joined from the
\* main thread only after it has emitted ITERATIONS notifications and its
\* counter has reached ITERATIONS.
C15_ProgressMutatedByMainThread ==
    /\ [](/\ wr["progress_"] \subseteq {MainThread}
          /\ \A w \in Workers :
                join_calls[w] > 0 =>
                    /\ progress_[w] = ITERATIONS
                    /\ emitted[w] = ITERATIONS
                    /\ MainThread \in wr["progress_"])
    /\ [][\A w \in Workers :
            progress_'[w] # progress_[w] =>
                /\ main_pc = "run"
                /\ progress_'[w] = progress_[w] + 1
                /\ delivered'[w] = delivered[w] + 1
                /\ tpc'[w] = tpc[w]
                /\ i'[w] = i[w]
                /\ emitted'[w] = emitted[w]]_vars

C15_Witness ==
    /\ wr["progress_"] = {MainThread}
    /\ \E w \in Workers : Joined(w) /\ progress_[w] = ITERATIONS
    /\ \E v \in Workers : progress_[v] > 0 /\ tpc[v] \in {"loop", "emitted"}

\* C16: quit() is called at most once, and exactly once by the time the
\* loop is stopped; it is called in the finished callback of the
\* ThreadProgress whose counter reached ITERATIONS last, when every other
\* one has been joined; a finished callback that leaves some ThreadProgress
\* unfinished does not call it; and once it has been called no further
\* notification, callback or timer is processed.
C16_QuitOnceByLastFinished ==
    /\ [](/\ quit_calls <= 1
          /\ quit_calls = 1 => \A w \in Workers : finished_calls[w] = 1
          /\ main_loop_ = "stopped" =>
                quit_calls = 1 /\ \A w \in Workers : signal_increment_[w] = 0)
    /\ [][quit_calls' # quit_calls =>
            /\ main_pc = "join"
            /\ finished_calls[joining] = 1
            /\ \A w \in Workers \ {joining} : Joined(w) /\ progress_[w] = ITERATIONS
            /\ UNCHANGED <<delivered, progress_, finished_calls>>]_vars
    /\ [][(main_pc = "join" /\ main_pc' # "join"
             /\ \E w \in Workers : progress_[w] < ITERATIONS)
            => quit_calls' = quit_calls /\ main_loop_' = "running"]_vars
    /\ [][main_loop_ = "stopped" =>
            UNCHANGED <<delivered, progress_, finished_calls, join_calls, launch_fires,
                        quit_calls, signal_increment_>>]_vars

C16_Witness ==
    /\ quit_calls = 1
    /\ main_loop_ = "stopped"
    /\ main_pc = "run"
    /\ \A w \in Workers : finished_calls[w] = 1

\* C17: a worker thread never waits for the main thread: from its launch
\* until it has emitted ITERATIONS notifications its next step (sleep and
\* emit, or the increment and test of its loop) is enabled in every state,
\* whatever the main thread is doing.
C17_WorkersNeverWait ==
    \A w \in Workers :
        /\ tpc[w] = "loop" => emitted[w] < ITERATIONS /\ ENABLED thread_function_emit(w)
        /\ tpc[w] = "emitted" => ENABLED thread_function_next(w)
        /\ (launched[w] > 0 /\ emitted[w] < ITERATIONS) =>
              ENABLED (thread_function_emit(w) \/ thread_function_next(w))

\* the main thread is blocked in join() on one worker while another worker
\* has emitted all its notifications and none of them has been processed
C17_Witness ==
    /\ main_pc = "join"
    /\ \E w \in Workers :
          /\ w # joining
          /\ emitted[w] = ITERATIONS
          /\ delivered[w] = 0
          /\ signal_increment_[w] = ITERATIONS

\* C19: no worker thread exists and no notification is emitted before the
\* launch timer fires, and progress_ of every ThreadProgress stays 0 until
\* launch_threads has started all the workers: while launch_threads runs,
\* no progress_increment and no finished callback is processed, although
\* the workers started first may already emit.
C19_NoProgressBeforeAllLaunched ==
    /\ [](/\ launch_fires = 0 =>
                \A w \in Workers : tpc[w] = "none" /\ thread_[w] = "null" /\ emitted[w] = 0
          /\ (main_pc = "launch" \/ \E w \in Workers : launched[w] = 0) =>
                \A v \in Workers :
                    progress_[v] = 0 /\ delivered[v] = 0 /\ finished_calls[v] = 0)
    /\ [][main_pc = "launch" => UNCHANGED <<progress_, delivered, finished_calls>>]_vars

C19_Witness ==
    /\ main_pc = "launch"
    /\ emitted[1] > 0
    /\ signal_increment_[1] > 0
    /\ tpc[NumThreads] = "none"
    /\ \A v \in Workers : progress_[v] = 0

\* C20: from the moment the loop is stopped no notification is pending on
\* any Dispatcher and every worker thread has terminated and been joined:
\* for each ThreadProgress the emissions equal the dispatches (ITERATIONS),
\* so the objects deleted by ~Application hold no undelivered notification
\* and have no running thread.
C20_NothingPendingAtStop ==
    /\ (main_loop_ = "stopped" \/ main_pc \in {"dtor", "done"}) =>
          \A w \in Workers :
              /\ signal_increment_[w] = 0
              /\ emitted[w] = delivered[w]
              /\ delivered[w] = ITERATIONS
              /\ tpc[w] = "exited"
              /\ thread_[w] = "null"
    /\ \A w \in Workers :
          objects[w] # "alive" =>
              /\ objects[w] = "deleted"
              /\ signal_increment_[w] = 0
              /\ tpc[w] = "exited"

C20_Witness ==
    /\ main_pc = "done"
    /\ proc = "exited0"
    /\ \A w \in Workers :
          objects[w] = "deleted" /\ signal_increment_[w] = 0 /\ tpc[w] = "exited"

====
